---- MODULE Spec2Model ----
(***************************************************************************)
(* The automatic attendance-decision engine of the face attendance         *)
(* backend: AttendanceService.check_in / check_out over the attendance     *)
(* table, AutoAttendanceService on top of it.                              *)
(*                                                                         *)
(* Times are whole seconds since midnight of day 0 (a datetime), a         *)
(* confidence is in hundredths (0.70 is 70), a nullable column holds       *)
(* None (<<>>) or Some(v) (<<v>>).                                         *)
(***************************************************************************)
EXTENDS Integers, Sequences, FiniteSets, TLC

(* ------------------------------ bounds -------------------------------- *)
\* decisions of one behaviour
MaxOps == 3
\* detections of one batch
MaxBatch == 2
\* worker tasks that run decisions at the same time
NumWorkers == 2
\* runs of the periodic task process_detection_queue
MaxQueueRuns == 2

(* -------------------------- program constants ------------------------- *)
DUPLICATE_CHECK_WINDOW == 5
MIN_CONFIDENCE_FOR_AUTO_CHECK_IN == 70
MIN_CONFIDENCE_FOR_REVIEW == 60
MANUAL_CONFIDENCE == 100
DEFAULT_CONFIDENCE == 0
NOON_HOUR == 12
EVENING_HOUR == 16
DaySec == 86400
HourSec == 3600
MinSec == 60
\* DetectionProcessingQueue.max_retries
MAX_RETRIES == 3
\* max_retries of the celery task process_detection_frame
TASK_MAX_RETRIES == 3

None == <<>>
Some(v) == <<v>>

(* ------------------------------ inputs -------------------------------- *)
HMS(h, m, s) == h * HourSec + m * MinSec + s

\* wall-clock times of the detections and of the caller-supplied timestamps
TimesOfDay ==
    { HMS(8, 0, 0), HMS(8, 2, 30), HMS(8, 5, 0), HMS(12, 0, 0), HMS(16, 0, 0),
      HMS(17, 0, 30) }

\* an evening one day later: a second attendance_date
NextDayTimes == { DaySec + HMS(17, 0, 30) }

Times == TimesOfDay \cup NextDayTimes

\* enrolled persons (rows of the persons table)
Persons == { "P1", "P2" }
\* a person_id with no row in the persons table
Ghost == "PX"
\* Detection.person_id is nullable
NoPerson == "NONE"

Confidences == { 59, 60, 69, 70 }

\* the detections: every confidence at every time for P1; P2 seen with certainty
\* at the door in the morning and in the evening; the unknown and the unlinked
\* detection below and above the thresholds
Detections ==
    [ person_id : { "P1" }, confidence : Confidences, created_at : Times ]
    \cup [ person_id : { "P2" }, confidence : { 70 },
           created_at : { HMS(8, 0, 0), HMS(17, 0, 30) } ]
    \cup [ person_id : { Ghost, NoPerson }, confidence : { 59, 70 },
           created_at : { HMS(8, 0, 0) } ]

\* the persons a reviewer approves attendance for, and marks the status of
ReviewedPersons == { "P1", Ghost }
MarkedPersons == { "P1" }

ManualActions == { "check_in", "check_out", "approve" }
Statuses == { "absent", "excused" }


(* ------------------------------- state -------------------------------- *)
VARIABLES
    rows,     \* the attendance table: a set of Attendance rows
    nextId,   \* the next fresh primary key (uuid4)
    last,     \* the decision that ran last, with its outcome
    batch,    \* process_batch_detections in progress: its results so far
    nOps,     \* decisions run so far
    calls,    \* per worker task: how far its decision has got
    queue,      \* the table detection_processing_queue: queue id -> item
    frameTask,  \* the task process_detection_frame of one item
    queueTask   \* the periodic task process_detection_queue

attendanceVars == << rows, nextId, last, batch, nOps, calls >>
queueVars == << queue, frameTask, queueTask >>
vars == << rows, nextId, last, batch, nOps, calls, queue, frameTask, queueTask >>

(* --------------------------- time arithmetic -------------------------- *)
\* datetime.replace(hour=0, minute=0, second=0, microsecond=0)
Midnight(t) == t - (t % DaySec)

\* datetime.hour
Hour(t) == (t % DaySec) \div HourSec

\* int(x / 60): truncation toward zero
IntMinutes(secs) == IF secs >= 0 THEN secs \div MinSec ELSE -((-secs) \div MinSec)

\* floor(x / 60)
FloorMinutes(secs) == secs \div MinSec

\* the dates mark_attendance_status is called with
Dates == { Midnight(t) : t \in Times }

(* --------------------------- the attendance table --------------------- *)
\* the nullable columns of Attendance
Nullable == { "check_in_time", "check_out_time", "duration_minutes" }

\* Attendance(id=attendance_id, **kwargs): the column defaults, then the kwargs
NewAttendance(attendance_id, kw) ==
    LET defaults ==
            [ id |-> attendance_id, person_id |-> "", attendance_date |-> 0,
              check_in_time |-> None, check_in_confidence |-> DEFAULT_CONFIDENCE,
              check_in_source |-> "detection", check_out_time |-> None,
              check_out_confidence |-> DEFAULT_CONFIDENCE,
              check_out_source |-> "detection", duration_minutes |-> None,
              status |-> "present", is_manual |-> FALSE ]
    IN  [ f \in DOMAIN defaults |->
            IF f \in DOMAIN kw
            THEN IF f \in Nullable THEN kw[f] ELSE kw[f][1]
            ELSE defaults[f] ]

\* AttendanceRepository.create: one more row, committed
create(rws, attendance_id, kw) ==
    LET attendance == NewAttendance(attendance_id, kw)
    IN  [ rows |-> rws \cup { attendance }, row |-> Some(attendance) ]

\* AttendanceRepository.get_by_id
get_by_id(rws, attendance_id) == { r \in rws : r.id = attendance_id }

\* get_by_person_and_date with a strict lower bound: midnight itself is excluded
get_by_person_and_date_strict(rws, person_id, attendance_date) ==
    LET date_start == Midnight(attendance_date)
        date_end == date_start + (DaySec - 1)
    IN  { r \in rws : /\ r.person_id = person_id
                      /\ r.attendance_date > date_start
                      /\ r.attendance_date <= date_end }

\* get_by_person_and_date without the lower bound: earlier dates match too
get_by_person_and_date_unbounded(rws, person_id, attendance_date) ==
    LET date_start == Midnight(attendance_date)
        date_end == date_start + (DaySec - 1)
    IN  { r \in rws : /\ r.person_id = person_id
                      /\ r.attendance_date <= date_end }

\* get_by_person_and_date without the test of the person
get_by_person_and_date_any_person(rws, person_id, attendance_date) ==
    LET date_start == Midnight(attendance_date)
        date_end == date_start + (DaySec - 1)
    IN  { r \in rws : /\ r.attendance_date >= date_start
                      /\ r.attendance_date <= date_end }

\* the rows the query of get_by_person_and_date selects
get_by_person_and_date(rws, person_id, attendance_date) ==
    LET date_start == Midnight(attendance_date)
        date_end == date_start + (DaySec - 1)
    IN  { r \in rws : /\ r.person_id = person_id
                      /\ r.attendance_date >= date_start
                      /\ r.attendance_date <= date_end }

\* Result.scalar_one_or_none(): None, the row, or MultipleResultsFound
scalar_one_or_none(matching) ==
    [ raised |-> Cardinality(matching) > 1,
      row |-> IF Cardinality(matching) = 1
              THEN Some(CHOOSE r \in matching : TRUE) ELSE None ]

\* the setattr loop of update: a kwarg that is None is skipped
SetAttrs(attendance, kw) ==
    [ f \in DOMAIN attendance |->
        IF f \in DOMAIN kw /\ kw[f] # None
        THEN IF f \in Nullable THEN kw[f] ELSE kw[f][1]
        ELSE attendance[f] ]

\* AttendanceRepository.update: None when the id has no row
update(rws, attendance_id, kw) ==
    LET found == get_by_id(rws, attendance_id)
    IN  IF found = {}
        THEN [ rows |-> rws, row |-> None ]
        ELSE LET attendance == CHOOSE r \in found : TRUE
                 updated == SetAttrs(attendance, kw)
             IN  [ rows |-> (rws \ { attendance }) \cup { updated },
                   row |-> Some(updated) ]

\* PersonService.get_person: NotFoundError for an id with no row
get_person(person_id) == [ found |-> person_id \in Persons ]

(* --------------------------- AttendanceService ------------------------ *)
\* the dict a service call returns; raised: it ended in an exception instead
Returned(rws, nid, success, error, is_new) ==
    [ rows |-> rws, nextId |-> nid, success |-> success, error |-> error,
      is_new |-> is_new, raised |-> FALSE ]

Raised(rws, nid, error) ==
    [ rows |-> rws, nextId |-> nid, success |-> FALSE, error |-> error,
      is_new |-> FALSE, raised |-> TRUE ]

\* is_duplicate_check_in reading the check-out time of the row
is_duplicate_check_in_wrong_field(existing, check_in_time) ==
    /\ existing # None
    /\ existing[1].check_out_time # None
    /\ (check_in_time - existing[1].check_out_time[1])
          < DUPLICATE_CHECK_WINDOW * MinSec

\* is_duplicate_check_in on the distance of the two times, before or after
is_duplicate_check_in_absolute(existing, check_in_time) ==
    /\ existing # None
    /\ existing[1].check_in_time # None
    /\ (check_in_time - existing[1].check_in_time[1])
          < DUPLICATE_CHECK_WINDOW * MinSec
    /\ (existing[1].check_in_time[1] - check_in_time)
          < DUPLICATE_CHECK_WINDOW * MinSec

\* check_in: the duplicate test on the row read
is_duplicate_check_in(existing, check_in_time) ==
    /\ existing # None
    /\ existing[1].check_in_time # None
    /\ (check_in_time - existing[1].check_in_time[1])
          < DUPLICATE_CHECK_WINDOW * MinSec

\* the keyword arguments of the write with the confidence left out
check_in_fields_without_confidence(check_in_time, confidence, is_manual) ==
    [ check_in_time |-> Some(check_in_time),
      check_in_source |-> Some(IF is_manual THEN "manual" ELSE "detection"),
      status |-> Some("present") ]

\* the keyword arguments of the write with the status left as it is
check_in_fields_without_status(check_in_time, confidence, is_manual) ==
    [ check_in_time |-> Some(check_in_time),
      check_in_confidence |-> Some(confidence),
      check_in_source |-> Some(IF is_manual THEN "manual" ELSE "detection") ]

\* check_in: the keyword arguments of the write
check_in_fields(check_in_time, confidence, is_manual) ==
    [ check_in_time |-> Some(check_in_time),
      check_in_confidence |-> Some(confidence),
      check_in_source |-> Some(IF is_manual THEN "manual" ELSE "detection"),
      status |-> Some("present") ]

\* check_in_decide refreshing the confidence of the row on a duplicate
check_in_decide_touch(rws, nid, existing, person_id, check_in_time, confidence, is_manual) ==
    IF is_duplicate_check_in(existing, check_in_time)
    THEN Returned(update(rws, existing[1].id,
                         [ check_in_confidence |-> Some(confidence) ]).rows,
                  nid, FALSE, "Duplicate check-in detected", FALSE)
    ELSE IF existing # None
    THEN Returned(update(rws, existing[1].id,
                         check_in_fields(check_in_time, confidence, is_manual)).rows,
                  nid, TRUE, "", FALSE)
    ELSE Returned(create(rws, nid,
                         [ person_id |-> Some(person_id),
                           attendance_date |-> Some(Midnight(check_in_time)) ]
                         @@ check_in_fields(check_in_time, confidence, is_manual)).rows,
                  nid + 1, TRUE, "", TRUE)

\* check_in_decide with the duplicate test kept for detections only
check_in_decide_manual_exempt(rws, nid, existing, person_id, check_in_time, confidence, is_manual) ==
    IF ~is_manual /\ is_duplicate_check_in(existing, check_in_time)
    THEN Returned(rws, nid, FALSE, "Duplicate check-in detected", FALSE)
    ELSE IF existing # None
    THEN Returned(update(rws, existing[1].id,
                         check_in_fields(check_in_time, confidence, is_manual)).rows,
                  nid, TRUE, "", FALSE)
    ELSE Returned(create(rws, nid,
                         [ person_id |-> Some(person_id),
                           attendance_date |-> Some(Midnight(check_in_time)) ]
                         @@ check_in_fields(check_in_time, confidence, is_manual)).rows,
                  nid + 1, TRUE, "", TRUE)

\* check_in from the row read on: duplicate, update of the row, or create
check_in_decide(rws, nid, existing, person_id, check_in_time, confidence, is_manual) ==
    IF is_duplicate_check_in(existing, check_in_time)
    THEN Returned(rws, nid, FALSE, "Duplicate check-in detected", FALSE)
    ELSE IF existing # None
    THEN LET u == update(rws, existing[1].id,
                         check_in_fields(check_in_time, confidence, is_manual))
         IN  IF u.row = None
             THEN Raised(u.rows, nid, "AttributeError")
             ELSE Returned(u.rows, nid, TRUE, "", FALSE)
    ELSE LET c == create(rws, nid,
                         [ person_id |-> Some(person_id),
                           attendance_date |-> Some(Midnight(check_in_time)) ]
                         @@ check_in_fields(check_in_time, confidence, is_manual))
         IN  Returned(c.rows, nid + 1, TRUE, "", TRUE)

\* AttendanceService.check_in, run to its end with nothing in between;
\* store_fails: the attendance table raises on access
check_in(rws, nid, person_id, check_in_time, confidence, is_manual, store_fails) ==
    IF ~get_person(person_id).found
    THEN Returned(rws, nid, FALSE, "Person not found", FALSE)
    ELSE IF store_fails
    THEN Raised(rws, nid, "StoreUnavailable")
    ELSE LET q == scalar_one_or_none(
                      get_by_person_and_date(rws, person_id, Midnight(check_in_time)))
         IN  IF q.raised
             THEN Raised(rws, nid, "MultipleResultsFound")
             ELSE check_in_decide(rws, nid, q.row, person_id, check_in_time,
                                  confidence, is_manual)

\* check_out: no row for the date, or a row that has no check-in
no_check_in(existing) == existing = None \/ existing[1].check_in_time = None

\* check_out: the duplicate test on the row read
is_duplicate_check_out(existing, check_out_time) ==
    /\ existing[1].check_out_time # None
    /\ (check_out_time - existing[1].check_out_time[1])
          < DUPLICATE_CHECK_WINDOW * MinSec

\* check_out: int(duration.total_seconds() / 60)
duration_minutes(existing, check_out_time) ==
    IntMinutes(check_out_time - existing[1].check_in_time[1])

\* check_out: the keyword arguments of the write
check_out_fields(existing, check_out_time, confidence, is_manual) ==
    [ check_out_time |-> Some(check_out_time),
      check_out_confidence |-> Some(confidence),
      check_out_source |-> Some(IF is_manual THEN "manual" ELSE "detection"),
      duration_minutes |-> Some(duration_minutes(existing, check_out_time)) ]

\* check_out_decide creating the row when the person has none for the date
check_out_decide_upsert(rws, nid, existing, check_out_time, confidence, is_manual) ==
    IF existing = None
    THEN Returned(create(rws, nid,
                         [ person_id |-> Some("P1"),
                           attendance_date |-> Some(Midnight(check_out_time)),
                           check_out_time |-> Some(check_out_time),
                           check_out_confidence |-> Some(confidence) ]).rows,
                  nid + 1, TRUE, "", TRUE)
    ELSE IF no_check_in(existing)
    THEN Returned(rws, nid, FALSE, "No check-in record found for today", FALSE)
    ELSE IF is_duplicate_check_out(existing, check_out_time)
    THEN Returned(rws, nid, FALSE, "Duplicate check-out detected", FALSE)
    ELSE Returned(update(rws, existing[1].id,
                         check_out_fields(existing, check_out_time, confidence,
                                          is_manual)).rows,
                  nid, TRUE, "", FALSE)

\* check_out from the row read on
check_out_decide(rws, nid, existing, check_out_time, confidence, is_manual) ==
    IF no_check_in(existing)
    THEN Returned(rws, nid, FALSE, "No check-in record found for today", FALSE)
    ELSE IF is_duplicate_check_out(existing, check_out_time)
    THEN Returned(rws, nid, FALSE, "Duplicate check-out detected", FALSE)
    ELSE LET u == update(rws, existing[1].id,
                         check_out_fields(existing, check_out_time, confidence, is_manual))
         IN  IF u.row = None
             THEN Raised(u.rows, nid, "AttributeError")
             ELSE Returned(u.rows, nid, TRUE, "", FALSE)

\* AttendanceService.check_out, run to its end with nothing in between
check_out(rws, nid, person_id, check_out_time, confidence, is_manual, store_fails) ==
    IF ~get_person(person_id).found
    THEN Returned(rws, nid, FALSE, "Person not found", FALSE)
    ELSE IF store_fails
    THEN Raised(rws, nid, "StoreUnavailable")
    ELSE LET q == scalar_one_or_none(
                      get_by_person_and_date(rws, person_id, Midnight(check_out_time)))
         IN  IF q.raised
             THEN Raised(rws, nid, "MultipleResultsFound")
             ELSE check_out_decide(rws, nid, q.row, check_out_time, confidence, is_manual)

\* AttendanceService.mark_attendance_status (reason is not modelled: notes)
mark_attendance_status(rws, nid, person_id, attendance_date, status) ==
    LET date_start == Midnight(attendance_date)
        q == scalar_one_or_none(get_by_person_and_date(rws, person_id, date_start))
    IN  IF q.raised
        THEN Raised(rws, nid, "MultipleResultsFound")
        ELSE IF q.row # None
        THEN LET u == update(rws, q.row[1].id, [ status |-> Some(status) ])
             IN  Returned(u.rows, nid, TRUE, "", FALSE)
        ELSE LET c == create(rws, nid,
                             [ person_id |-> Some(person_id),
                               attendance_date |-> Some(date_start),
                               status |-> Some(status), is_manual |-> Some(TRUE) ])
             IN  Returned(c.rows, nid + 1, TRUE, "", TRUE)

(* ------------------------- AutoAttendanceService ---------------------- *)
\* the dict process_detection_for_attendance returns, with the store it leaves;
\* attempted: the service call the decision made, if any
Outcome(rws, nid, processed, reason, requires_review, attempted, is_new, error) ==
    [ rows |-> rws, nextId |-> nid, processed |-> processed, reason |-> reason,
      requires_review |-> requires_review, attempted |-> attempted,
      is_new |-> is_new, error |-> error ]

\* the outcome of a decision that called check_in or check_out
FromService(r, attempted) ==
    IF r.raised
    THEN Outcome(r.rows, r.nextId, FALSE, "Error", FALSE, attempted, FALSE, TRUE)
    ELSE Outcome(r.rows, r.nextId, r.success, r.error, FALSE, attempted, r.is_new, FALSE)

\* a test that lets every detection through to the confidence gate
no_person_linked_never(detection) == FALSE

\* not detection.person_id
no_person_linked(detection) == detection.person_id = NoPerson

\* the review threshold as an inclusive bound
below_review_threshold_inclusive(confidence) == confidence <= MIN_CONFIDENCE_FOR_REVIEW

\* detection.confidence < MIN_CONFIDENCE_FOR_REVIEW
below_review_threshold(confidence) == confidence < MIN_CONFIDENCE_FOR_REVIEW

\* should_auto_mark
should_auto_mark(confidence) == confidence >= MIN_CONFIDENCE_FOR_AUTO_CHECK_IN

\* the heuristic with noon itself counted as morning
infer_action_noon_inclusive(hour) ==
    IF hour <= NOON_HOUR THEN "check_in"
    ELSE IF hour >= EVENING_HOUR THEN "check_out"
    ELSE "review"

\* the time-of-day heuristic on detection.created_at.hour
infer_action(hour) ==
    IF hour < NOON_HOUR THEN "check_in"
    ELSE IF hour >= EVENING_HOUR THEN "check_out"
    ELSE "review"

\* AutoAttendanceService.process_detection_for_attendance
process_detection_for_attendance(rws, nid, detection, store_fails) ==
    IF no_person_linked(detection)
    THEN Outcome(rws, nid, FALSE, "No person linked to detection", FALSE, "none",
                 FALSE, FALSE)
    ELSE IF below_review_threshold(detection.confidence)
    THEN Outcome(rws, nid, FALSE, "Confidence below threshold", FALSE, "none",
                 FALSE, FALSE)
    ELSE IF ~get_person(detection.person_id).found
    THEN Outcome(rws, nid, FALSE, "Person not found", FALSE, "none", FALSE, FALSE)
    ELSE IF ~should_auto_mark(detection.confidence)
    THEN Outcome(rws, nid, FALSE, "Confidence below auto-mark threshold", TRUE,
                 "none", FALSE, FALSE)
    ELSE LET action == infer_action(Hour(detection.created_at))
         IN  IF action = "check_in"
             THEN FromService(check_in(rws, nid, detection.person_id,
                                       detection.created_at, detection.confidence,
                                       FALSE, store_fails), "check_in")
             ELSE IF action = "check_out"
             THEN FromService(check_out(rws, nid, detection.person_id,
                                        detection.created_at, detection.confidence,
                                        FALSE, store_fails), "check_out")
             ELSE Outcome(rws, nid, FALSE, "Mid-day detection requires manual review",
                          TRUE, "none", FALSE, FALSE)

\* manually_approve_attendance keeping to the hours of the automatic decision
manually_approve_attendance_by_hour(rws, nid, person_id, action, timestamp, store_fails) ==
    IF action \in { "check_in", "check_out" } /\ infer_action(Hour(timestamp)) # action
    THEN Outcome(rws, nid, FALSE, "Mid-day detection requires manual review", TRUE,
                 "none", FALSE, FALSE)
    ELSE IF action = "check_in"
    THEN FromService(check_in(rws, nid, person_id, timestamp, MANUAL_CONFIDENCE,
                              TRUE, store_fails), "check_in")
    ELSE IF action = "check_out"
    THEN FromService(check_out(rws, nid, person_id, timestamp, MANUAL_CONFIDENCE,
                               TRUE, store_fails), "check_out")
    ELSE Outcome(rws, nid, FALSE, "Invalid action", FALSE, "none", FALSE, FALSE)

\* AutoAttendanceService.manually_approve_attendance: the service's dict, or
\* success False with the message of the exception
manually_approve_attendance(rws, nid, person_id, action, timestamp, store_fails) ==
    IF action = "check_in"
    THEN FromService(check_in(rws, nid, person_id, timestamp, MANUAL_CONFIDENCE,
                              TRUE, store_fails), "check_in")
    ELSE IF action = "check_out"
    THEN FromService(check_out(rws, nid, person_id, timestamp, MANUAL_CONFIDENCE,
                               TRUE, store_fails), "check_out")
    ELSE Outcome(rws, nid, FALSE, "Invalid action", FALSE, "none", FALSE, FALSE)

\* the tallies with a result made from an exception left out
tally_without_errors(results, result) ==
    IF result.error
    THEN results
    ELSE IF result.processed
    THEN [ results EXCEPT !.auto_marked = @ + 1, !.total_processed = @ + 1 ]
    ELSE IF result.requires_review
    THEN [ results EXCEPT !.requires_review = @ + 1 ]
    ELSE [ results EXCEPT !.failed = @ + 1 ]

\* process_batch_detections: the tallies after one more result
tally(results, result) ==
    IF result.processed
    THEN [ results EXCEPT !.auto_marked = @ + 1, !.total_processed = @ + 1 ]
    ELSE IF result.requires_review
    THEN [ results EXCEPT !.requires_review = @ + 1 ]
    ELSE [ results EXCEPT !.failed = @ + 1 ]

\* process_batch_detections: results before the loop
EmptyResults ==
    [ total_processed |-> 0, auto_marked |-> 0, requires_review |-> 0, failed |-> 0 ]

\* AutoAttendanceService.get_pending_reviews: pending = [], returned as it is
get_pending_reviews == {}

\* the attendance events a decision with outcome o sends to the subscribers:
\* nothing calls broadcast_check_in_event or broadcast_check_out_event
broadcasts(o) == {}

\* whether the call of op ends in an exception at its caller: the decisions
\* answer an exception with a dict (except Exception), mark_attendance_status
\* has no handler
propagates(op, o) == op = "mark" /\ o.error

(* ------------------------------ behaviour ----------------------------- *)
\* what ran last: the call, its arguments, what it answered, and whether the
\* person had a row for the date of the call when it began
Ran(op, person_id, time, confidence, action, o) ==
    [ op |-> op, person_id |-> person_id, time |-> time, confidence |-> confidence,
      action |-> action, processed |-> o.processed, reason |-> o.reason,
      requires_review |-> o.requires_review, attempted |-> o.attempted,
      is_new |-> o.is_new, error |-> o.error,
      existed |-> get_by_person_and_date(rows, person_id, time) # {},
      raised |-> propagates(op, o), events |-> broadcasts(o) ]

Nothing ==
    [ op |-> "none", person_id |-> NoPerson, time |-> 0, confidence |-> 0,
      action |-> "none", processed |-> FALSE, reason |-> "", requires_review |-> FALSE,
      attempted |-> "none", is_new |-> FALSE, error |-> FALSE, existed |-> FALSE,
      raised |-> FALSE, events |-> {} ]

\* the dict one detection of a batch adds to details
Detail(o) ==
    [ processed |-> o.processed, reason |-> o.reason,
      requires_review |-> o.requires_review ]

NoBatch == [ active |-> FALSE, results |-> EmptyResults, details |-> << >> ]

Workers == 1 .. NumWorkers

NoDetection == [ person_id |-> NoPerson, confidence |-> 0, created_at |-> 0 ]

\* a worker task between decisions
Idle == [ pc |-> "idle", detection |-> NoDetection, existing |-> None ]

(* ---------------------- detection processing queue -------------------- *)
\* The rows of detection_processing_queue and the two worker tasks that take
\* them. Each task works in a session of its own: the session keeps the item as
\* it last loaded or refreshed it (a later select of a loaded item does not
\* reload its attributes), and a commit writes the attributes whose value the
\* task changed in that copy.

QueueIds == {"Q1", "Q2"}

QueueStatuses == {"pending", "processing", "completed", "failed"}

\* an item as the column defaults make it
Enqueued == [ status |-> "pending", retry_count |-> 0, max_retries |-> MAX_RETRIES ]

\* select ... where status == "pending"
get_pending(q) == { queue_id \in QueueIds : q[queue_id].status = "pending" }

\* item.status = status; commit: the row after the commit of a session that
\* holds the copy item
update_status(row, item, status) ==
    [ row EXCEPT !.status = IF item.status # status THEN status ELSE @ ]

\* mark_completed: update_status(queue_id, "completed", ...)
mark_completed(row, item) == update_status(row, item, "completed")

\* mark_failed: back to pending with one more retry while retries are left,
\* failed otherwise; the test is on the session's copy
mark_failed(row, item) ==
    IF item.retry_count < item.max_retries
    THEN [ row EXCEPT !.status = IF item.status # "pending" THEN "pending" ELSE @,
                      !.retry_count = item.retry_count + 1 ]
    ELSE [ row EXCEPT !.status = IF item.status # "failed" THEN "failed" ELSE @ ]

\* service.send_frame_for_detection(..., frame_data=queue_item.frame_data, ...):
\* DetectionProcessingQueue has no attribute frame_data, so the arguments raise
\* AttributeError before the call and the except branch runs
frame_data_missing == TRUE

\* the body of the try of both tasks after the item is marked processing:
\* mark_completed when the frame was sent, mark_failed in the except branch
after_processing(row, item) ==
    IF frame_data_missing THEN mark_failed(row, item) ELSE mark_completed(row, item)

NoItem == [ status |-> "none", retry_count |-> 0, max_retries |-> 0 ]

\* process_detection_frame not started
NoFrameTask == [ pc |-> "idle", queue_id |-> "none", item |-> NoItem, retries |-> 0 ]

\* process_detection_queue between runs
NoQueueTask == [ pc |-> "idle", items |-> << >>, item |-> NoItem, runs |-> 0 ]

Init ==
    /\ rows = {}
    /\ nextId = 1
    /\ last = Nothing
    /\ batch = NoBatch
    /\ nOps = 0
    /\ calls = [ w \in Workers |-> Idle ]
    /\ queue = [ queue_id \in QueueIds |-> Enqueued ]
    /\ frameTask = NoFrameTask
    /\ queueTask = NoQueueTask

\* the worker task process_detection_for_attendance on one detection
ProcessDetection(detection, store_fails) ==
    /\ ~batch.active
    /\ nOps < MaxOps
    /\ LET o == process_detection_for_attendance(rows, nextId, detection, store_fails)
       IN  /\ rows' = o.rows
           /\ nextId' = o.nextId
           /\ last' = Ran("auto", detection.person_id, detection.created_at,
                          detection.confidence, "none", o)
    /\ nOps' = nOps + 1
    /\ batch' = NoBatch
    /\ UNCHANGED << calls, queue, frameTask, queueTask >>

\* a reviewer's manually_approve_attendance
ManuallyApprove(person_id, action, timestamp, store_fails) ==
    /\ ~batch.active
    /\ nOps < MaxOps
    /\ LET o == manually_approve_attendance(rows, nextId, person_id, action,
                                            timestamp, store_fails)
       IN  /\ rows' = o.rows
           /\ nextId' = o.nextId
           /\ last' = Ran("manual", person_id, timestamp, MANUAL_CONFIDENCE, action, o)
    /\ nOps' = nOps + 1
    /\ batch' = NoBatch
    /\ UNCHANGED << calls, queue, frameTask, queueTask >>

\* mark_attendance_status for an enrolled person
MarkAttendanceStatus(person_id, attendance_date, status) ==
    /\ ~batch.active
    /\ nOps < MaxOps
    /\ LET r == mark_attendance_status(rows, nextId, person_id, attendance_date, status)
       IN  /\ rows' = r.rows
           /\ nextId' = r.nextId
           /\ last' = Ran("mark", person_id, attendance_date, 0, status,
                          FromService(r, "mark"))
    /\ nOps' = nOps + 1
    /\ batch' = NoBatch
    /\ UNCHANGED << calls, queue, frameTask, queueTask >>

\* process_batch_detections is called: results is initialised
BatchStart ==
    /\ ~batch.active
    /\ nOps < MaxOps
    /\ batch' = [ active |-> TRUE, results |-> EmptyResults, details |-> << >> ]
    /\ last' = [ Nothing EXCEPT !.op = "batch_start" ]
    /\ UNCHANGED << rows, nextId, nOps, calls, queue, frameTask, queueTask >>

\* one turn of the loop of process_batch_detections, on the next detection of the list
BatchStep(detection, store_fails) ==
    /\ batch.active
    /\ Len(batch.details) < MaxBatch
    /\ nOps < MaxOps
    /\ LET o == process_detection_for_attendance(rows, nextId, detection, store_fails)
           ran == Ran("batch", detection.person_id, detection.created_at,
                      detection.confidence, "none", o)
       IN  /\ rows' = o.rows
           /\ nextId' = o.nextId
           /\ last' = ran
           /\ batch' = [ batch EXCEPT !.results = tally(@, o),
                                      !.details = Append(@, Detail(o)) ]
    /\ nOps' = nOps + 1
    /\ UNCHANGED << calls, queue, frameTask, queueTask >>

\* the list is exhausted: process_batch_detections returns results
BatchReturn ==
    /\ batch.active
    /\ batch' = [ batch EXCEPT !.active = FALSE ]
    /\ last' = [ Nothing EXCEPT !.op = "batch_return" ]
    /\ UNCHANGED << rows, nextId, nOps, calls, queue, frameTask, queueTask >>

Next ==
    \/ \E detection \in Detections, store_fails \in BOOLEAN :
          ProcessDetection(detection, store_fails)
    \/ \E person_id \in ReviewedPersons, action \in ManualActions,
          timestamp \in Times, store_fails \in BOOLEAN :
          ManuallyApprove(person_id, action, timestamp, store_fails)
    \/ \E person_id \in MarkedPersons, attendance_date \in Dates, status \in Statuses :
          MarkAttendanceStatus(person_id, attendance_date, status)
    \/ BatchStart
    \/ \E detection \in Detections, store_fails \in BOOLEAN :
          BatchStep(detection, store_fails)
    \/ BatchReturn

Spec == Init /\ [][Next]_vars

(* ---------------------- decisions at the same time -------------------- *)
\* Worker tasks each run process_detection_for_attendance in a session of their
\* own. A decision gives way to the others at its awaits on the attendance
\* table: before the read of the row and between that read and the write.

\* the detections that reach check_in or check_out
ActionableDetections ==
    { d \in Detections :
        /\ d.person_id \in Persons
        /\ should_auto_mark(d.confidence)
        /\ infer_action(Hour(d.created_at)) # "review" }

\* the task is started on a detection and comes to the service call
BeginDecision(w, detection) ==
    /\ calls[w].pc = "idle"
    /\ nOps < MaxOps
    /\ calls' = [ calls EXCEPT ![w] = [ pc |-> "read", detection |-> detection,
                                        existing |-> None ] ]
    /\ nOps' = nOps + 1
    /\ UNCHANGED << rows, nextId, last, batch, queue, frameTask, queueTask >>

\* existing = await self.repo.get_by_person_and_date(...)
ReadExisting(w) ==
    /\ calls[w].pc = "read"
    /\ LET d == calls[w].detection
           q == scalar_one_or_none(
                    get_by_person_and_date(rows, d.person_id, Midnight(d.created_at)))
       IN  IF q.raised
           THEN /\ calls' = [ calls EXCEPT ![w].pc = "idle" ]
                /\ last' = Ran("auto", d.person_id, d.created_at, d.confidence, "none",
                               FromService(Raised(rows, nextId, "MultipleResultsFound"),
                                           infer_action(Hour(d.created_at))))
           ELSE /\ calls' = [ calls EXCEPT ![w].pc = "write", ![w].existing = q.row ]
                /\ UNCHANGED last
    /\ UNCHANGED << rows, nextId, batch, nOps, queue, frameTask, queueTask >>

\* the rest of check_in or check_out, on the row read earlier
DecideAndWrite(w) ==
    /\ calls[w].pc = "write"
    /\ LET d == calls[w].detection
           action == infer_action(Hour(d.created_at))
           r == IF action = "check_in"
                THEN check_in_decide(rows, nextId, calls[w].existing, d.person_id,
                                     d.created_at, d.confidence, FALSE)
                ELSE check_out_decide(rows, nextId, calls[w].existing, d.created_at,
                                      d.confidence, FALSE)
       IN  /\ rows' = r.rows
           /\ nextId' = r.nextId
           /\ last' = Ran("auto", d.person_id, d.created_at, d.confidence, "none",
                          FromService(r, action))
    /\ calls' = [ calls EXCEPT ![w].pc = "idle" ]
    /\ UNCHANGED << batch, nOps, queue, frameTask, queueTask >>

ConcNext ==
    \/ \E w \in Workers, detection \in ActionableDetections :
          BeginDecision(w, detection)
    \/ \E w \in Workers : ReadExisting(w)
    \/ \E w \in Workers : DecideAndWrite(w)

ConcSpec == Init /\ [][ConcNext]_vars

(* ------------------------ the queue's worker tasks -------------------- *)
\* The tasks give way to each other at their awaits on the queue table: after
\* the item is loaded, after the commit of update_status, and after its refresh.

\* process_detection_frame is delivered for an item: queue_item = get_by_id(queue_id)
FrameTaskLoad(queue_id) ==
    /\ frameTask.pc = "idle"
    /\ frameTask' = [ pc |-> "loaded", queue_id |-> queue_id, item |-> queue[queue_id],
                      retries |-> 0 ]
    /\ UNCHANGED << queue, queueTask >>

\* update_status(queue_id, "processing") up to its commit
FrameTaskMarkProcessing ==
    /\ frameTask.pc = "loaded"
    /\ queue' = [ queue EXCEPT ![frameTask.queue_id] =
                      update_status(@, frameTask.item, "processing") ]
    /\ frameTask' = [ frameTask EXCEPT !.pc = "committed" ]
    /\ UNCHANGED queueTask

\* the refresh that ends update_status
FrameTaskRefresh ==
    /\ frameTask.pc = "committed"
    /\ frameTask' = [ frameTask EXCEPT !.pc = "processing",
                                       !.item = queue[frameTask.queue_id] ]
    /\ UNCHANGED << queue, queueTask >>

\* the rest of the try and the except branch; the exception is raised again
\* and the celery task asks for a retry while it has retries left
FrameTaskFinish ==
    /\ frameTask.pc = "processing"
    /\ queue' = [ queue EXCEPT ![frameTask.queue_id] =
                      after_processing(@, frameTask.item) ]
    /\ frameTask' = [ frameTask EXCEPT
                        !.pc = IF ~frame_data_missing THEN "done"
                               ELSE IF frameTask.retries < TASK_MAX_RETRIES
                                    THEN "retry" ELSE "gave_up",
                        !.item = NoItem ]
    /\ UNCHANGED queueTask

\* the retry of the celery task: the task body again, in a new session
FrameTaskRetry ==
    /\ frameTask.pc = "retry"
    /\ frameTask' = [ frameTask EXCEPT !.pc = "loaded",
                                       !.item = queue[frameTask.queue_id],
                                       !.retries = @ + 1 ]
    /\ UNCHANGED << queue, queueTask >>

\* the orders in which get_pending can return the items of a set (the items
\* have the same priority)
RECURSIVE Orders(_)
Orders(ids) ==
    IF ids = {} THEN { << >> }
    ELSE UNION { { << queue_id >> \o rest : rest \in Orders(ids \ {queue_id}) } :
                 queue_id \in ids }

\* a run of process_detection_queue begins: pending_items = get_pending(limit)
QueueTaskGetPending(items) ==
    /\ queueTask.pc = "idle"
    /\ queueTask.runs < MaxQueueRuns
    /\ items \in Orders(get_pending(queue))
    /\ queueTask' = [ pc |-> IF items = << >> THEN "idle" ELSE "loaded",
                      items |-> [ k \in 1..Len(items) |->
                                    [ queue_id |-> items[k], item |-> queue[items[k]] ] ],
                      item |-> NoItem,
                      runs |-> queueTask.runs + 1 ]
    /\ UNCHANGED << queue, frameTask >>

\* the loop comes to the next item: update_status(queue_item.id, "processing")
\* up to its commit
QueueTaskMarkProcessing ==
    /\ queueTask.pc = "loaded"
    /\ LET head == Head(queueTask.items)
       IN  queue' = [ queue EXCEPT ![head.queue_id] =
                         update_status(@, head.item, "processing") ]
    /\ queueTask' = [ queueTask EXCEPT !.pc = "committed" ]
    /\ UNCHANGED frameTask

\* the refresh that ends update_status
QueueTaskRefresh ==
    /\ queueTask.pc = "committed"
    /\ queueTask' = [ queueTask EXCEPT !.pc = "processing",
                                       !.item = queue[Head(queueTask.items).queue_id] ]
    /\ UNCHANGED << queue, frameTask >>

\* the rest of the try and the except branch for the item; the loop goes on
QueueTaskFinish ==
    /\ queueTask.pc = "processing"
    /\ queue' = [ queue EXCEPT ![Head(queueTask.items).queue_id] =
                      after_processing(@, queueTask.item) ]
    /\ queueTask' = [ queueTask EXCEPT
                        !.pc = IF Tail(queueTask.items) = << >> THEN "idle" ELSE "loaded",
                        !.items = Tail(@),
                        !.item = NoItem ]
    /\ UNCHANGED frameTask

\* DetectionService.mark_frame_completed: mark_completed in a session of its own
MarkFrameCompleted(queue_id) ==
    /\ queue[queue_id].status # "completed"
    /\ queue' = [ queue EXCEPT ![queue_id] = mark_completed(@, queue[queue_id]) ]
    /\ UNCHANGED << frameTask, queueTask >>

QueueNext ==
    \/ \E queue_id \in QueueIds : FrameTaskLoad(queue_id) /\ UNCHANGED attendanceVars
    \/ FrameTaskMarkProcessing /\ UNCHANGED attendanceVars
    \/ FrameTaskRefresh /\ UNCHANGED attendanceVars
    \/ FrameTaskFinish /\ UNCHANGED attendanceVars
    \/ FrameTaskRetry /\ UNCHANGED attendanceVars
    \/ \E items \in Orders(QueueIds) \cup Orders({}) \cup
                    UNION { Orders({queue_id}) : queue_id \in QueueIds } :
          QueueTaskGetPending(items) /\ UNCHANGED attendanceVars
    \/ QueueTaskMarkProcessing /\ UNCHANGED attendanceVars
    \/ QueueTaskRefresh /\ UNCHANGED attendanceVars
    \/ QueueTaskFinish /\ UNCHANGED attendanceVars
    \/ \E queue_id \in QueueIds : MarkFrameCompleted(queue_id) /\ UNCHANGED attendanceVars

QueueSpec == Init /\ [][QueueNext]_vars

(* ------------------------------- claims ------------------------------- *)
\* the rows of one person for one attendance_date
RowsOf(rws, person_id, attendance_date) ==
    { r \in rws : r.person_id = person_id /\ r.attendance_date = attendance_date }

\* the calls that run the decision engine on a detection
DetectionOps == { "auto", "batch" }

\* the calls that make a decision
DecisionOps == { "auto", "batch", "manual" }

\* C1: with decisions run one at a time, every person has at most one
\* attendance row for every attendance_date.
C1_Uniqueness ==
    \A r1 \in rows, r2 \in rows :
        (r1.person_id = r2.person_id /\ r1.attendance_date = r2.attendance_date)
            => r1 = r2

\* a check-in was applied to the row the person already had for the date
C1_Witness ==
    /\ last.attempted = "check_in"
    /\ last.processed
    /\ last.existed
    /\ Cardinality(RowsOf(rows, last.person_id, Midnight(last.time))) = 1

\* C3: a row with both times set has duration_minutes equal to the floor of the
\* minutes from check_in_time to check_out_time.
C3_DurationCorrect ==
    \A r \in rows :
        (r.check_in_time # None /\ r.check_out_time # None)
            => r.duration_minutes
                  = Some(FloorMinutes(r.check_out_time[1] - r.check_in_time[1]))

\* C4: a row with check_out_time set has check_out_time >= check_in_time.
C4_CheckOutNotBeforeCheckIn ==
    \A r \in rows :
        (r.check_in_time # None /\ r.check_out_time # None)
            => r.check_out_time[1] >= r.check_in_time[1]

\* C5: no step leaves a row with check_out_time set and check_in_time unset, and
\* no step clears the check_in_time of a row or removes the row.
C5_NoOrphanCheckOut ==
    [][ /\ \A r \in rows' : r.check_out_time # None => r.check_in_time # None
        /\ \A r \in rows : r.check_in_time # None =>
              \E r2 \in rows' : r2.id = r.id /\ r2.check_in_time # None ]_vars

\* a check-out was refused on a row that exists but has no check-in
C5_Witness ==
    /\ last.attempted = "check_out"
    /\ ~last.processed
    /\ \E r \in RowsOf(rows, last.person_id, Midnight(last.time)) :
          r.check_in_time = None /\ r.check_out_time = None

\* the detection of the step is the detection of the step before, and neither
\* run met a store failure
SameDetectionTwice ==
    /\ last.op \in DetectionOps
    /\ last'.op \in DetectionOps
    /\ last'.person_id = last.person_id
    /\ last'.time = last.time
    /\ last'.confidence = last.confidence
    /\ ~last.error
    /\ ~last'.error

DuplicateReasons == { "Duplicate check-in detected", "Duplicate check-out detected" }

\* one of the two runs recorded, the other was refused as a duplicate, and the
\* second run left the table as the first left it
OneRecordedOneDuplicate ==
    /\ \/ last.processed /\ ~last'.processed /\ last'.reason \in DuplicateReasons
       \/ last'.processed /\ ~last.processed /\ last.reason \in DuplicateReasons
    /\ rows' = rows

\* C6 as stated: any detection processed twice in succession, the person having
\* no row for the day at the start, gives one recorded outcome and one duplicate
\* rejection, and the second run leaves the table unchanged.
C6_AnyDetectionTwice ==
    [][ (SameDetectionTwice /\ ~last.existed) => OneRecordedOneDuplicate ]_vars

\* C6 amended: the same for a detection the engine auto-accepts as a check-in
\* (enrolled person, confidence >= 0.70, hour < 12).
C6_MorningDetectionTwice ==
    [][ ( /\ SameDetectionTwice
          /\ ~last.existed
          /\ last.person_id \in Persons
          /\ last.confidence >= 70
          /\ Hour(last.time) < 12 )
        => ( /\ last.processed
             /\ ~last'.processed
             /\ last'.reason = "Duplicate check-in detected"
             /\ rows' = rows ) ]_vars

\* the same morning detection was recorded and then refused as a duplicate
C6_Witness ==
    /\ last.op \in DetectionOps
    /\ last.reason = "Duplicate check-in detected"
    /\ last.confidence >= 70
    /\ \E r \in rows :
          /\ r.person_id = last.person_id
          /\ r.check_in_time = Some(last.time)
          /\ r.check_in_confidence = last.confidence
          /\ r.check_in_source = "detection"
    /\ nOps = 2

\* C7: a decision that does not answer with a recorded check-in or check-out
\* leaves the attendance table exactly as it was.
C7_RejectedLeavesStore ==
    [][ (last'.op \in DecisionOps /\ ~last'.processed)
            => (rows' = rows /\ nextId' = nextId) ]_vars

\* a manual check-in was refused as a duplicate of a row holding other data
C7_Witness ==
    /\ last.op = "manual"
    /\ last.reason = "Duplicate check-in detected"
    /\ \E r \in RowsOf(rows, last.person_id, Midnight(last.time)) :
          r.check_in_confidence # MANUAL_CONFIDENCE

\* 0: rejected by the gate, 1: deferred by the gate, 2: passed on to the hour
GateRank(o) ==
    IF o.reason = "Confidence below threshold" THEN 0
    ELSE IF o.reason = "Confidence below auto-mark threshold" THEN 1
    ELSE 2

\* C8: for an enrolled person, confidence < 0.60 is rejected, 0.60 <= confidence
\* < 0.70 is deferred for review, confidence >= 0.70 goes on to the time-of-day
\* step; and on the table the detection was processed on, the same detection with
\* a higher confidence never has a lower place in that order, nor one with a lower
\* confidence a higher place.
C8_ConfidenceGate ==
    [][ (last'.op \in DetectionOps /\ last'.person_id \in Persons) =>
          /\ last'.confidence < 60 =>
                /\ ~last'.processed /\ ~last'.requires_review
                /\ last'.attempted = "none"
                /\ GateRank(last') = 0
          /\ (last'.confidence >= 60 /\ last'.confidence < 70) =>
                /\ ~last'.processed /\ last'.requires_review
                /\ last'.attempted = "none"
                /\ GateRank(last') = 1
          /\ last'.confidence >= 70 =>
                /\ GateRank(last') = 2
                /\ \/ last'.attempted \in { "check_in", "check_out" }
                   \/ last'.reason = "Mid-day detection requires manual review"
          /\ \A c \in Confidences :
                LET other == GateRank(process_detection_for_attendance(
                                 rows, nextId,
                                 [ person_id |-> last'.person_id, confidence |-> c,
                                   created_at |-> last'.time ],
                                 FALSE))
                IN  /\ c <= last'.confidence => other <= GateRank(last')
                    /\ c >= last'.confidence => other >= GateRank(last') ]_vars

\* a detection at exactly 0.60 was deferred and one at exactly 0.70 would go on
C8_Witness ==
    /\ last.op \in DetectionOps
    /\ last.person_id \in Persons
    /\ last.confidence = 60
    /\ last.requires_review
    /\ GateRank(process_detection_for_attendance(
                   rows, nextId,
                   [ person_id |-> last.person_id, confidence |-> 70,
                     created_at |-> last.time ], FALSE)) = 2

\* the check-out side of the table: which rows hold which check-out
CheckOutSide(rws) ==
    { << r.id, r.check_out_time, r.check_out_confidence, r.check_out_source,
         r.duration_minutes >> : r \in { x \in rws : x.check_out_time # None } }

\* the check-in side of the table
CheckInSide(rws) ==
    { << r.id, r.check_in_time, r.check_in_confidence, r.check_in_source >> :
         r \in rws }

\* C9: an auto-accepted detection of an enrolled person calls check_in and writes
\* no check-out when its hour is below 12, calls check_out and writes no check-in
\* when its hour is 16 or more, and otherwise is deferred for review and writes
\* nothing.
C9_TimeOfDay ==
    [][ ( /\ last'.op \in DetectionOps
          /\ last'.person_id \in Persons
          /\ last'.confidence >= 70 )
        => ( /\ Hour(last'.time) < 12 =>
                   /\ last'.attempted = "check_in"
                   /\ CheckOutSide(rows') = CheckOutSide(rows)
             /\ Hour(last'.time) >= 16 =>
                   /\ last'.attempted = "check_out"
                   /\ CheckInSide(rows') = CheckInSide(rows)
             /\ (Hour(last'.time) >= 12 /\ Hour(last'.time) < 16) =>
                   /\ last'.attempted = "none"
                   /\ ~last'.processed
                   /\ last'.requires_review
                   /\ rows' = rows ) ]_vars

\* a detection at 12:00 sharp was deferred although the person was checked in
C9_Witness ==
    /\ last.op \in DetectionOps
    /\ last.confidence >= 70
    /\ Hour(last.time) = 12
    /\ last.requires_review
    /\ \E r \in RowsOf(rows, last.person_id, Midnight(last.time)) :
          r.check_in_time # None /\ r.check_out_time = None

\* the step is a check-out call, auto or manual, that met no store failure
CheckOutCalled ==
    /\ ~last'.error
    /\ last'.person_id \in Persons
    /\ \/ last'.op = "manual" /\ last'.action = "check_out"
       \/ /\ last'.op \in DetectionOps
          /\ last'.confidence >= 70
          /\ Hour(last'.time) >= 16

\* C10: a check-out for a person who has no row for the date of the event, or a
\* row without check_in_time, is refused and changes nothing, whatever rows the
\* person has for other dates.
C10_NoPriorCheckIn ==
    [][ ( /\ CheckOutCalled
          /\ \A r \in RowsOf(rows, last'.person_id, Midnight(last'.time)) :
                r.check_in_time = None )
        => ( /\ ~last'.processed
             /\ last'.reason = "No check-in record found for today"
             /\ rows' = rows
             /\ nextId' = nextId ) ]_vars

\* a check-out was refused for a person checked in on another date only
C10_Witness ==
    /\ last.attempted = "check_out"
    /\ last.reason = "No check-in record found for today"
    /\ RowsOf(rows, last.person_id, Midnight(last.time)) = {}
    /\ \E r \in rows :
          /\ r.person_id = last.person_id
          /\ r.attendance_date < Midnight(last.time)
          /\ r.check_in_time # None

\* every worker has run one decision, all of them check-ins of one detection,
\* and no other decision has run: the table was empty when they began
SameCheckInByAll ==
    /\ nOps = NumWorkers
    /\ \A w \in Workers :
          /\ calls[w].pc = "idle"
          /\ calls[w].detection \in ActionableDetections
          /\ calls[w].detection = calls[1].detection
    /\ infer_action(Hour(calls[1].detection.created_at)) = "check_in"

\* C2: when every worker has run a check-in of the same detection on a table
\* that had no row for the person and date, the table holds exactly one row for
\* them, however the reads and writes were interleaved.
C2_ExactlyOneCreated ==
    SameCheckInByAll =>
        Cardinality(RowsOf(rows, calls[1].detection.person_id,
                           Midnight(calls[1].detection.created_at))) = 1

\* the step is a manual approval with action check_in or check_out for an
\* enrolled person that met no store failure
ManualApproval ==
    /\ last'.op = "manual"
    /\ last'.action \in { "check_in", "check_out" }
    /\ last'.person_id \in Persons
    /\ ~last'.error

\* the step approves as a check-in the detection the step before deferred as
\* mid-day: same person, same time
ApprovesDeferredMidDay ==
    /\ last.op \in DetectionOps
    /\ last.reason = "Mid-day detection requires manual review"
    /\ last'.action = "check_in"
    /\ last'.person_id = last.person_id
    /\ last'.time = last.time

\* after the step the row of the person holds a manual check-in at the timestamp
ManualCheckInRecorded ==
    /\ last'.processed
    /\ \E r \in RowsOf(rows', last'.person_id, Midnight(last'.time)) :
          /\ r.check_in_time = Some(last'.time)
          /\ r.check_in_source = "manual"
          /\ r.check_in_confidence = MANUAL_CONFIDENCE

InReadModifyWrite(w) == calls[w].pc = "write"

\* C12: no two decisions for the same person and attendance_date are both
\* between their read of the row and their write.
C12_MutualExclusion ==
    \A w1 \in Workers, w2 \in Workers :
        ( /\ w1 # w2
          /\ InReadModifyWrite(w1)
          /\ InReadModifyWrite(w2)
          /\ calls[w1].detection.person_id = calls[w2].detection.person_id )
        => Midnight(calls[w1].detection.created_at)
              # Midnight(calls[w2].detection.created_at)

\* the detections tallied in results
Tallied(results) == results.auto_marked + results.requires_review + results.failed

\* C13: every turn of the loop of process_batch_detections, a turn whose decision
\* met a store error included, adds the outcome of its detection as one more
\* entry at the end of details, leaves the batch running and counts the detection
\* in exactly one of auto_marked, requires_review and failed (a store error in
\* failed); at every moment auto_marked + requires_review + failed is the number
\* of detections handled and total_processed equals auto_marked.
C13_BatchHandlesEachOnce ==
    [][ /\ Tallied(batch'.results) = Len(batch'.details)
        /\ batch'.results.total_processed = batch'.results.auto_marked
        /\ last'.op = "batch" =>
              /\ batch'.active
              /\ batch'.details = Append(batch.details,
                                         [ processed |-> last'.processed,
                                           reason |-> last'.reason,
                                           requires_review |-> last'.requires_review ])
              /\ last'.error =>
                    /\ ~last'.processed
                    /\ batch'.results = [ batch.results EXCEPT !.failed = @ + 1 ]
        /\ last'.op = "batch_return" =>
              /\ batch'.results = batch.results
              /\ batch'.details = batch.details ]_vars

\* a batch of two has returned: its first detection met a store error, its second
\* was recorded
C13_Witness ==
    /\ last.op = "batch_return"
    /\ Len(batch.details) = 2
    /\ batch.details[1].reason = "Error"
    /\ batch.details[2].processed
    /\ batch.results.failed = 1
    /\ batch.results.auto_marked = 1
    /\ rows # {}

\* the entries of details refused as duplicates
DuplicateEntries(details) ==
    { i \in 1 .. Len(details) : details[i].reason \in DuplicateReasons }

\* the entries of details neither recorded, nor deferred, nor refused as duplicates
FailedEntries(details) ==
    { i \in 1 .. Len(details) :
        /\ ~details[i].processed
        /\ ~details[i].requires_review
        /\ details[i].reason \notin DuplicateReasons }

\* C14: the results of a batch count the duplicate rejections in a tally
\* rejected_duplicate of their own, and failed counts only the other detections
\* that were neither recorded nor deferred.
C14_DuplicatesTalliedApart ==
    /\ batch.results.failed = Cardinality(FailedEntries(batch.details))
    /\ DuplicateEntries(batch.details) # {} =>
          /\ "rejected_duplicate" \in DOMAIN batch.results
          /\ batch.results.rejected_duplicate
                = Cardinality(DuplicateEntries(batch.details))

\* C15: a decision that met a store failure ends in an exception at its caller;
\* it never returns the failure as a not-processed outcome.
C15_StoreFailurePropagated ==
    (last.op \in DecisionOps /\ last.error) => last.raised

\* C16: a decision that recorded a check-in or a check-out has sent to the
\* subscribers an attendance event for that person and action.
C16_EventEmitted ==
    (last.op \in DecisionOps /\ last.processed) =>
        \E e \in last.events :
            e.person_id = last.person_id /\ e.action = last.attempted

\* C17: when a detection has been deferred (confidence below the auto threshold,
\* or mid-day), get_pending_reviews returns a review item for that detection.
C17_DeferredIsPending ==
    (last.op \in DetectionOps /\ last.requires_review) =>
        \E item \in get_pending_reviews :
            item.person_id = last.person_id /\ item.created_at = last.time

\* C18: a detection with no person_id, processed alone or in a batch, is answered
\* not-processed with "No person linked to detection" and leaves the attendance
\* table as it was; the answer is the same when the attendance store is failing,
\* so the store is neither read nor written.
C18_NoPersonNoStoreAccess ==
    [][ /\ \A d \in Detections, store_fails \in BOOLEAN :
              d.person_id = NoPerson =>
                  process_detection_for_attendance(rows, nextId, d, store_fails)
                      = Outcome(rows, nextId, FALSE, "No person linked to detection",
                                FALSE, "none", FALSE, FALSE)
        /\ (last'.op \in DetectionOps /\ last'.person_id = NoPerson) =>
              /\ ~last'.processed
              /\ ~last'.requires_review
              /\ ~last'.error
              /\ last'.attempted = "none"
              /\ last'.reason = "No person linked to detection"
              /\ rows' = rows
              /\ nextId' = nextId ]_vars

\* a detection with no person and confidence 0.70 was turned away inside a batch
\* that had recorded an attendance before it
C18_Witness ==
    /\ last.op = "batch"
    /\ last.person_id = NoPerson
    /\ last.confidence = 70
    /\ last.reason = "No person linked to detection"
    /\ Len(batch.details) = 2
    /\ batch.details[1].processed
    /\ batch.results.failed = 1
    /\ rows # {}

Abs(x) == IF x >= 0 THEN x ELSE -x

\* the step is a call of check_in or check_out for an enrolled person that met
\* no store failure
ServiceCalled ==
    /\ last'.op \in DecisionOps
    /\ last'.person_id \in Persons
    /\ last'.attempted \in { "check_in", "check_out" }
    /\ ~last'.error

\* C19: a check-in (resp. check-out) is refused as a duplicate exactly when the
\* row of the person and date has check_in_time (resp. check_out_time) set and
\* the event time is less than 5 minutes away from it, before or after.
C19_DuplicateIffWithinWindow ==
    [][ ServiceCalled =>
          LET mine == RowsOf(rows, last'.person_id, Midnight(last'.time))
          IN  /\ last'.attempted = "check_in" =>
                    ( last'.reason = "Duplicate check-in detected"
                      <=> \E r \in mine :
                             /\ r.check_in_time # None
                             /\ Abs(last'.time - r.check_in_time[1])
                                   < DUPLICATE_CHECK_WINDOW * MinSec )
              /\ last'.attempted = "check_out" =>
                    ( last'.reason = "Duplicate check-out detected"
                      <=> \E r \in mine :
                             /\ r.check_out_time # None
                             /\ Abs(last'.time - r.check_out_time[1])
                                   < DUPLICATE_CHECK_WINDOW * MinSec ) ]_vars

\* C20: a check-out whose event time is earlier than the check_in_time of the row
\* is refused and leaves the row as it was.
C20_NegativeDurationRejected ==
    [][ ( /\ CheckOutCalled
          /\ \E r \in RowsOf(rows, last'.person_id, Midnight(last'.time)) :
                r.check_in_time # None /\ last'.time < r.check_in_time[1] )
        => ( /\ ~last'.processed
             /\ rows' = rows ) ]_vars

\* C21: a check-in earlier than the check_in_time of the row is refused as a
\* duplicate when it is less than 5 minutes earlier, and is recorded, the row's
\* check_in_time becoming the earlier time, when it is 5 minutes or more earlier.
C21_EarlierCheckInCorrects ==
    [][ (ServiceCalled /\ last'.attempted = "check_in") =>
          \A r \in RowsOf(rows, last'.person_id, Midnight(last'.time)) :
              (r.check_in_time # None /\ last'.time < r.check_in_time[1]) =>
                  IF r.check_in_time[1] - last'.time < DUPLICATE_CHECK_WINDOW * MinSec
                  THEN /\ last'.reason = "Duplicate check-in detected"
                       /\ rows' = rows
                  ELSE /\ last'.processed
                       /\ \E r2 \in rows' :
                             r2.id = r.id /\ r2.check_in_time = Some(last'.time) ]_vars

\* the step is a check-in call made for a detection of an enrolled person that
\* met no store failure and was not refused as a duplicate
NonDuplicateCheckIn ==
    /\ last'.op \in DetectionOps
    /\ last'.person_id \in Persons
    /\ last'.attempted = "check_in"
    /\ ~last'.error
    /\ last'.reason # "Duplicate check-in detected"

\* row r with the check-in fields of the detection of the step written over it
CheckInWrittenOver(r) ==
    [ r EXCEPT !.check_in_time = Some(last'.time),
               !.check_in_confidence = last'.confidence,
               !.check_in_source = "detection",
               !.status = "present" ]

C23_ManualDuplicateRefused ==
    [][ ManualApproval =>
          LET mine == RowsOf(rows, last'.person_id, Midnight(last'.time))
          IN  /\ ( /\ last'.action = "check_in"
                   /\ \E r \in mine :
                         /\ r.check_in_time # None
                         /\ Abs(last'.time - r.check_in_time[1])
                               < DUPLICATE_CHECK_WINDOW * MinSec )
                 => ( /\ ~last'.processed
                      /\ last'.reason = "Duplicate check-in detected"
                      /\ rows' = rows
                      /\ nextId' = nextId )
              /\ ( /\ last'.action = "check_out"
                   /\ \E r \in mine :
                         /\ r.check_out_time # None
                         /\ Abs(last'.time - r.check_out_time[1])
                               < DUPLICATE_CHECK_WINDOW * MinSec )
                 => ( /\ ~last'.processed
                      /\ last'.reason = "Duplicate check-out detected"
                      /\ rows' = rows
                      /\ nextId' = nextId ) ]_vars

\* a manual check-out at the time of the check-out a detection had recorded was
\* refused as a duplicate
C23_Witness ==
    /\ last.op = "manual"
    /\ last.action = "check_out"
    /\ last.reason = "Duplicate check-out detected"
    /\ \E r \in RowsOf(rows, last.person_id, Midnight(last.time)) :
          /\ r.check_out_time = Some(last.time)
          /\ r.check_out_source = "detection"
          /\ r.check_out_confidence # MANUAL_CONFIDENCE

\* C24: a detection with confidence >= 0.60 whose person the directory lookup
\* does not return is not answered with the failure of the lookup: below 0.70 it
\* is deferred for review, and an auto-accepted morning detection goes to check_in,
\* which records it when the person has no row for the date and the store holds.
C24_LookupFailureDegrades ==
    [][ ( /\ last'.op \in DetectionOps
          /\ last'.person_id # NoPerson
          /\ ~get_person(last'.person_id).found
          /\ last'.confidence >= MIN_CONFIDENCE_FOR_REVIEW )
        => ( /\ last'.reason # "Person not found"
             /\ last'.confidence < MIN_CONFIDENCE_FOR_AUTO_CHECK_IN =>
                   last'.requires_review
             /\ ( /\ last'.confidence >= MIN_CONFIDENCE_FOR_AUTO_CHECK_IN
                  /\ Hour(last'.time) < NOON_HOUR ) =>
                   /\ last'.attempted = "check_in"
                   /\ ( /\ ~last'.error
                        /\ RowsOf(rows, last'.person_id, Midnight(last'.time)) = {} )
                      => ( /\ last'.processed
                           /\ RowsOf(rows', last'.person_id, Midnight(last'.time))
                                 # {} ) ) ]_vars

\* the decision that answered with the record l, run again on another table
Rerun(l, rws, nid) ==
    IF l.op = "manual"
    THEN manually_approve_attendance(rws, nid, l.person_id, l.action, l.time, l.error)
    ELSE process_detection_for_attendance(
             rws, nid,
             [ person_id |-> l.person_id, confidence |-> l.confidence,
               created_at |-> l.time ], l.error)

\* the table without the primary keys (uuid4 values, different in every run)
WithoutIds(rws) == { [ r EXCEPT !.id = 0 ] : r \in rws }

\* an order of the enrolled persons, to take every pair of persons once
PersonIndex == [ q \in Persons |-> IF q = "P1" THEN 1 ELSE 2 ]

\* the decisions for the enrolled persons before person_id in that order:
\* certain detections and manual approvals
DecisionsOfOthers(person_id) ==
    LET others == { q \in Persons : PersonIndex[q] < PersonIndex[person_id] }
    IN  { [ op |-> "auto", person_id |-> d.person_id, time |-> d.created_at,
            confidence |-> d.confidence, action |-> "none", error |-> FALSE ] :
            d \in { x \in Detections : /\ x.person_id \in others
                                       /\ x.confidence >= 70 } }
        \cup { [ op |-> "manual", person_id |-> q, time |-> t,
                 confidence |-> MANUAL_CONFIDENCE, action |-> a, error |-> FALSE ] :
                 q \in ReviewedPersons \cap others,
                 t \in Times, a \in { "check_in", "check_out" } }

\* C25: a decision for person P with event date D leaves every row of another
\* person and every row of P for another date as it was and adds no such row; and
\* run before or after a decision for another person it gives the same table
\* (every pair of decisions is compared once, on the step of the later person).
C25_OtherRecordsUnchanged ==
    [][ last'.op \in DecisionOps =>
          /\ \A r \in rows \cup rows' :
                (r.person_id # last'.person_id
                    \/ r.attendance_date # Midnight(last'.time))
                => (r \in rows /\ r \in rows')
          /\ last'.person_id \in Persons =>
              \A b \in DecisionsOfOthers(last'.person_id) :
                LET first == Rerun(b, rows, nextId)
                    after == Rerun(b, rows', nextId')
                IN  WithoutIds(Rerun(last', first.rows, first.nextId).rows)
                       = WithoutIds(after.rows) ]_vars

\* P1 was checked out in the evening on a table that holds the check-in of P2
C25_Witness ==
    /\ last.op \in DecisionOps
    /\ last.person_id = "P1"
    /\ last.attempted = "check_out"
    /\ last.processed
    /\ \E r \in rows : r.person_id = "P2" /\ r.check_in_time # None
    /\ \E r \in rows : r.person_id = "P1" /\ r.check_out_time = Some(last.time)

\* the nullable time new is old, or old moved forward by 5 minutes or more
SameOrForward(old, new) ==
    old # None =>
        /\ new # None
        /\ \/ new = old
           \/ new[1] >= old[1] + DUPLICATE_CHECK_WINDOW * MinSec

\* C26: with decisions run one at a time, every step keeps every row, and the
\* check_in_time and the check_out_time of a row, once set, stay set and either
\* keep their value or move forward by at least 5 minutes.
C26_TimesNeverDecrease ==
    [][ \A r \in rows :
            \E r2 \in rows' :
                /\ r2.id = r.id
                /\ SameOrForward(r.check_in_time, r2.check_in_time)
                /\ SameOrForward(r.check_out_time, r2.check_out_time) ]_vars

\* a check-in overwrote the check_in_time of a row that a check-in had created
\* and that holds a check-out
C26_Witness ==
    /\ last.attempted = "check_in"
    /\ last.processed
    /\ ~last.is_new
    /\ \E r \in RowsOf(rows, last.person_id, Midnight(last.time)) :
          /\ r.check_in_time = Some(last.time)
          /\ ~r.is_manual
          /\ r.check_out_time # None

\* l answers an auto-accepted morning detection of an enrolled person in a batch
MorningInBatch(l) ==
    /\ l.op = "batch"
    /\ l.person_id \in Persons
    /\ l.confidence >= 70
    /\ Hour(l.time) < 12
    /\ ~l.error

\* C27: the loop of process_batch_detections applies the detections as listed.
\* The first detection of a batch, an auto-accepted morning detection of a person
\* with no row for the date, is recorded with its time as check_in_time; and a
\* morning detection of the same person and date that follows in the list one not
\* later than which it is (newest first), that one recorded or refused as a
\* duplicate, is refused as a duplicate and writes nothing, however much earlier
\* it is: check_in_time stays the time of the first.
C27_NewestFirstKeepsLatest ==
    [][ /\ ( /\ MorningInBatch(last')
             /\ batch.details = << >>
             /\ ~last'.existed )
           => ( /\ last'.processed
                /\ \E r \in RowsOf(rows', last'.person_id, Midnight(last'.time)) :
                      r.check_in_time = Some(last'.time) )
        /\ ( /\ MorningInBatch(last)
             /\ MorningInBatch(last')
             /\ last'.person_id = last.person_id
             /\ Midnight(last'.time) = Midnight(last.time)
             /\ last'.time <= last.time
             /\ last.processed \/ last.reason = "Duplicate check-in detected" )
           => ( /\ ~last'.processed
                /\ last'.reason = "Duplicate check-in detected"
                /\ rows' = rows
                /\ last.processed =>
                      \E r \in RowsOf(rows', last.person_id, Midnight(last.time)) :
                          r.check_in_time = Some(last.time) ) ]_vars

\* a batch listed 08:05:00 then 08:00:00 for a person with no row: the first was
\* recorded, the second, 5 minutes earlier, was refused
C27_Witness ==
    /\ last.op = "batch"
    /\ nOps = 2
    /\ Len(batch.details) = 2
    /\ batch.details[1].processed
    /\ last.reason = "Duplicate check-in detected"
    /\ last.time = HMS(8, 0, 0)
    /\ \E r \in rows : /\ rows = { r }
                       /\ r.person_id = last.person_id
                       /\ r.check_in_time = Some(HMS(8, 5, 0))

\* C28: a recorded check-in on a row the person already had leaves the row's
\* check_out_time, check_out_confidence, check_out_source and duration_minutes as
\* they were and sets its status to present; a recorded check-out leaves the row's
\* check_in_time, check_in_confidence, check_in_source and status as they were.
C28_OtherSideUntouched ==
    [][ (ServiceCalled /\ last'.processed) =>
          \A r \in RowsOf(rows, last'.person_id, Midnight(last'.time)) :
              \E r2 \in rows' :
                  /\ r2.id = r.id
                  /\ last'.attempted = "check_in" =>
                        /\ r2.check_out_time = r.check_out_time
                        /\ r2.check_out_confidence = r.check_out_confidence
                        /\ r2.check_out_source = r.check_out_source
                        /\ r2.duration_minutes = r.duration_minutes
                        /\ r2.status = "present"
                  /\ last'.attempted = "check_out" =>
                        /\ r2.check_in_time = r.check_in_time
                        /\ r2.check_in_confidence = r.check_in_confidence
                        /\ r2.check_in_source = r.check_in_source
                        /\ r2.status = r.status ]_vars

\* a check-in was recorded on a row that mark_attendance_status had created as
\* absent or excused: its status is now present
C28_Witness ==
    /\ last.attempted = "check_in"
    /\ last.processed
    /\ ~last.is_new
    /\ \E r \in RowsOf(rows, last.person_id, Midnight(last.time)) :
          /\ r.is_manual
          /\ r.status = "present"
          /\ r.check_in_time = Some(last.time)
          /\ r.check_out_time = None

\* the step ends the decision of worker w on an evening detection, a decision
\* that ran alone on a table holding a check-in of the person for the date: the
\* other workers are idle, and the row w has read, if it has read one, is a row
\* of the table with that check-in
EndsEveningDecisionAlone(w) ==
    /\ calls[w].pc # "idle"
    /\ calls'[w].pc = "idle"
    /\ \A v \in Workers \ { w } : calls[v].pc = "idle"
    /\ Hour(calls[w].detection.created_at) >= EVENING_HOUR
    /\ \E r \in RowsOf(rows, calls[w].detection.person_id,
                        Midnight(calls[w].detection.created_at)) :
          r.check_in_time # None
    /\ calls[w].pc = "write" =>
          /\ calls[w].existing # None
          /\ calls[w].existing[1] \in rows
          /\ calls[w].existing[1].check_in_time # None

\* C29: whatever the interleaving of the decisions before, an auto-accepted
\* evening detection of a person whose check-in for the date has been recorded,
\* processed while no other decision is running, is not answered with an error of
\* the lookup of the row, and is recorded as a check-out when the person has no
\* check-out for the date yet.
C29_CheckOutAfterRecordedCheckIn ==
    [][ \A w \in Workers :
          EndsEveningDecisionAlone(w) =>
              /\ ~last'.error
              /\ (\A r \in RowsOf(rows, last'.person_id, Midnight(last'.time)) :
                     r.check_out_time = None) => last'.processed ]_vars

\* the status and retry_count of the queue's items over a step
CompletedStays ==
    \A queue_id \in QueueIds :
        queue[queue_id].status = "completed" => queue'[queue_id].status = "completed"

RetriesWithinMax ==
    \A queue_id \in QueueIds : queue'[queue_id].retry_count <= queue'[queue_id].max_retries

\* C30: an item that is completed stays completed whatever the two tasks do
\* afterwards, and no item's retry_count goes above its max_retries.
C30_CompletedStaysCompleted == [][CompletedStays /\ RetriesWithinMax]_vars

\* the part of C30 about retry_count alone
C30_RetriesWithinMax == [][RetriesWithinMax]_vars

====
